---- MODULE Spec2Model ----
(***************************************************************************)
(* A model of gcode_parser.py: the GCodeParser analysis engine (tool       *)
(* change detection, retraction detection, height grouping, summary) and   *)
(* the two geometry extractors of GCodeParserApp.                          *)
(*                                                                         *)
(* Text is modelled as text: a line is a TLA+ string and every regular     *)
(* expression of the source is an operator that scans the characters of    *)
(* the string the way Python's re module scans them.                       *)
(*                                                                         *)
(* Numbers: a Python float read from a decimal literal with at most three  *)
(* fractional digits is modelled by the integer number of thousandths      *)
(* (Scale units per length unit), so 0.5 is 500 and 5.057 is 5057.         *)
(***************************************************************************)
EXTENDS Integers, Sequences, FiniteSets, TLC

VARIABLES
    lines,          \* GCodeParser.lines: the loaded line sequence
    tool_changes,   \* GCodeParser.tool_changes
    retractions,    \* GCodeParser.retractions
    parses,         \* parse() was called "never", "once" or "repeatedly"
    prev_results,   \* what the two accessors returned just before the last parse()
    result          \* the value returned by the last accessor call, tagged by its name

vars == <<lines, tool_changes, retractions, parses, prev_results, result>>

----------------------------------------------------------------------------
(* Characters and strings *)

Ch(s, i) == SubSeq(s, i, i)

Digits == {"0", "1", "2", "3", "4", "5", "6", "7", "8", "9"}

\* Python's \s and str.strip() whitespace, as far as the inputs contain it.
Whitespace == {" ", "\t", "\n", "\r"}

\* [A-Za-z0-9_], the word characters that decide a \b boundary.
WordChars ==
    Digits \cup {"_"} \cup
    {"A", "B", "C", "D", "E", "F", "G", "H", "I", "J", "K", "L", "M",
     "N", "O", "P", "Q", "R", "S", "T", "U", "V", "W", "X", "Y", "Z",
     "a", "b", "c", "d", "e", "f", "g", "h", "i", "j", "k", "l", "m",
     "n", "o", "p", "q", "r", "s", "t", "u", "v", "w", "x", "y", "z"}

DigitVal(c) ==
    CASE c = "0" -> 0 [] c = "1" -> 1 [] c = "2" -> 2 [] c = "3" -> 3
      [] c = "4" -> 4 [] c = "5" -> 5 [] c = "6" -> 6 [] c = "7" -> 7
      [] c = "8" -> 8 [] c = "9" -> 9

\* str.upper() on an axis letter.
Upper(c) ==
    CASE c = "x" -> "X" [] c = "y" -> "Y" [] c = "z" -> "Z" [] OTHER -> c

Min(S) == CHOOSE x \in S : \A y \in S : x <= y

\* The characters s[i..] start with the literal lit.
StartsAt(s, i, lit) ==
    /\ i >= 1
    /\ i + Len(lit) - 1 <= Len(s)
    /\ SubSeq(s, i, i + Len(lit) - 1) = lit

\* The first index >= i that holds no character of set cs (Len(s)+1 at the end):
\* where a greedy cs* starting at i stops.
RECURSIVE SkipWhile(_, _, _)
SkipWhile(s, i, cs) ==
    IF i <= Len(s) /\ Ch(s, i) \in cs THEN SkipWhile(s, i + 1, cs) ELSE i

\* str.strip()
RECURSIVE RStrip(_)
RStrip(s) ==
    IF Len(s) > 0 /\ Ch(s, Len(s)) \in Whitespace
    THEN RStrip(SubSeq(s, 1, Len(s) - 1))
    ELSE s

Strip(s) == RStrip(SubSeq(s, SkipWhile(s, 1, Whitespace), Len(s)))

\* Positions of character c in s at or after i.
Occurrences(s, i, c) == {k \in i..Len(s) : Ch(s, k) = c}

----------------------------------------------------------------------------
(* Line normalisation: the skip test and the two re.sub calls *)

\* line.startswith(';') or line.startswith('(') or not line, on the stripped line.
IsSkipped(line) ==
    \/ Len(line) = 0
    \/ Ch(line, 1) = ";"
    \/ Ch(line, 1) = "("

\* re.sub(r'\([^)]*\)', '', s): each leftmost "(" that has a ")" after it is
\* removed together with everything up to the first such ")".
RECURSIVE RemoveParens(_)
RemoveParens(s) ==
    LET opens == Occurrences(s, 1, "(") IN
    IF opens = {} THEN s
    ELSE LET o == Min(opens)
             closes == Occurrences(s, o + 1, ")")
         IN IF closes = {} THEN s
            ELSE SubSeq(s, 1, o - 1) \o RemoveParens(SubSeq(s, Min(closes) + 1, Len(s)))

\* The mutant of RemoveSemi that keeps the text after the semicolon.
RemoveSemiKeepsComment(s) == s

\* re.sub(r';.*', '', s): the line is cut at its first semicolon.
RemoveSemi(s) ==
    LET semis == Occurrences(s, 1, ";") IN
    IF semis = {} THEN s ELSE SubSeq(s, 1, Min(semis) - 1)

\* clean_line of detect_tool_changes and detect_retractions.
CleanLine(line) == RemoveSemi(RemoveParens(line))

----------------------------------------------------------------------------
(* detect_tool_changes *)

NoMatch == "<none>"

\* Where a match of lit \s+ letter (\d+) that starts at i has its first digit,
\* or 0 when there is no such match at i.  (\s+ is greedy and nothing after it
\* can start with whitespace, so it takes the whole run.)
WordThenToolAt(s, i, lit, letter) ==
    IF ~StartsAt(s, i, lit) THEN 0
    ELSE LET a == i + Len(lit)
             b == SkipWhile(s, a, Whitespace)
         IN IF b > a /\ StartsAt(s, b, letter) /\ b + 1 <= Len(s) /\ Ch(s, b + 1) \in Digits
            THEN b + 1 ELSE 0

\* The digits captured by (\d+) from index d on.
DigitRun(s, d) == SubSeq(s, d, SkipWhile(s, d, Digits) - 1)

\* re.search(r'T(\d+)', s): group(1) of the leftmost match, or NoMatch.
SearchBareT(s) ==
    LET hits == {i \in 1..Len(s) : StartsAt(s, i, "T") /\ i + 1 <= Len(s) /\ Ch(s, i + 1) \in Digits}
    IN IF hits = {} THEN NoMatch ELSE DigitRun(s, Min(hits) + 1)

\* re.search of lit \s+ letter (\d+): group(1) of the leftmost match, or NoMatch.
SearchWordThenTool(s, lit, letter) ==
    LET hits == {i \in 1..Len(s) : WordThenToolAt(s, i, lit, letter) # 0}
    IN IF hits = {} THEN NoMatch ELSE DigitRun(s, WordThenToolAt(s, Min(hits), lit, letter))

\* tool_change_patterns, in list order.
NumPatterns == 4

PatternSearch(p, s) ==
    CASE p = 1 -> SearchBareT(s)
      [] p = 2 -> SearchWordThenTool(s, "M6", "T")
      [] p = 3 -> SearchWordThenTool(s, "M06", "T")
      [] p = 4 -> SearchWordThenTool(s, "M61", "Q")

\* The mutant of FirstMatch that tries the patterns last to first.
RECURSIVE FirstMatchReversed(_, _)
FirstMatchReversed(s, p) ==
    LET q == NumPatterns + 1 - p IN
    IF p > NumPatterns THEN NoMatch
    ELSE IF PatternSearch(q, s) # NoMatch THEN PatternSearch(q, s)
    ELSE FirstMatchReversed(s, p + 1)

\* for pattern in tool_change_patterns: ... if match: ... break
\* The tool number of the first pattern, from p on, that matches s.
RECURSIVE FirstMatch(_, _)
FirstMatch(s, p) ==
    IF p > NumPatterns THEN NoMatch
    ELSE IF PatternSearch(p, s) # NoMatch THEN PatternSearch(p, s)
    ELSE FirstMatch(s, p + 1)

\* The events one line appends to self.tool_changes (none or one).
ToolEventsOfLine(raw, line_number) ==
    LET line == Strip(raw) IN
    IF IsSkipped(line) THEN <<>>
    ELSE LET tool_number == FirstMatch(CleanLine(line), 1) IN
         IF tool_number = NoMatch THEN <<>>
         ELSE << [line_number |-> line_number,
                  tool_number |-> tool_number,
                  line_content |-> line] >>

\* self.tool_changes = []
ResetToolChanges(old) == <<>>

RECURSIVE ToolChangeLoop(_, _, _)
ToolChangeLoop(ls, n, acc) ==
    IF n > Len(ls) THEN acc
    ELSE ToolChangeLoop(ls, n + 1, acc \o ToolEventsOfLine(ls[n], n))

\* detect_tool_changes: the new value of self.tool_changes.
DetectToolChanges(ls, old) == ToolChangeLoop(ls, 1, ResetToolChanges(old))

----------------------------------------------------------------------------
(* Numbers and positions *)

\* Thousandths per length unit: round(avg_height, 3) keeps three decimals.
Scale == 1000

RECURSIVE DigitsToInt(_)
DigitsToInt(ds) ==
    IF Len(ds) = 0 THEN 0
    ELSE 10 * DigitsToInt(SubSeq(ds, 1, Len(ds) - 1)) + DigitVal(Ch(ds, Len(ds)))

\* The fractional digits ds as thousandths (the inputs carry at most three).
FracToInt(ds) == DigitsToInt(SubSeq(ds \o "000", 1, 3))

NoNumber == [ok |-> FALSE, next |-> 0, value |-> 0]

\* The match of [-+]?\d*\.?\d+ anchored at j: whether there is one, the index
\* after it and float() of its text.  Greedy with backtracking: the integer
\* digits, then a point only if a digit follows it; without such a point the
\* integer digits alone are the match.
NumberAt(s, j) ==
    LET signed == j <= Len(s) /\ Ch(s, j) \in {"+", "-"}
        sign == IF signed /\ Ch(s, j) = "-" THEN -1 ELSE 1
        k == IF signed THEN j + 1 ELSE j
        m == SkipWhile(s, k, Digits)
        e == SkipWhile(s, m + 1, Digits)
    IN IF m + 1 <= Len(s) /\ Ch(s, m) = "." /\ Ch(s, m + 1) \in Digits
       THEN [ok |-> TRUE, next |-> e,
             value |-> sign * (DigitsToInt(SubSeq(s, k, m - 1)) * Scale
                               + FracToInt(SubSeq(s, m + 1, e - 1)))]
       ELSE IF m > k
       THEN [ok |-> TRUE, next |-> m,
             value |-> sign * DigitsToInt(SubSeq(s, k, m - 1)) * Scale]
       ELSE NoNumber

Origin == [X |-> 0, Y |-> 0, Z |-> 0]

AxisLetters == {"X", "x", "Y", "y", "Z", "z"}

\* for match in re.finditer(position_pattern, clean_line): current_pos[axis] = value
\* The non-overlapping matches of [XxYyZz]([-+]?\d*\.?\d+) from i on, left to
\* right, each overwriting its axis.
RECURSIVE ScanPositions(_, _, _)
ScanPositions(s, i, pos) ==
    IF i > Len(s) THEN pos
    ELSE LET num == NumberAt(s, i + 1) IN
         IF Ch(s, i) \in AxisLetters /\ num.ok
         THEN ScanPositions(s, num.next, [pos EXCEPT ![Upper(Ch(s, i))] = num.value])
         ELSE ScanPositions(s, i + 1, pos)

\* Where the command word [GgMm](?:\d+\.?\d*) that starts at i ends, if
\* whitespace follows it (\s+ needs that), else 0.
CommandWordEnd(s, i) ==
    IF ~(i + 1 <= Len(s) /\ Ch(s, i) \in {"G", "g", "M", "m"} /\ Ch(s, i + 1) \in Digits)
    THEN 0
    ELSE LET a == SkipWhile(s, i + 1, Digits)
             b == IF a <= Len(s) /\ Ch(s, a) = "." THEN SkipWhile(s, a + 1, Digits) ELSE a
         IN IF b <= Len(s) /\ Ch(s, b) \in Whitespace THEN b ELSE 0

\* re.search(z_movement_pattern, s) is not None:
\* [GgMm](?:\d+\.?\d*)\s+.*[Zz]([-+]?\d*\.?\d+)
IsZMovement(s) ==
    \E i \in 1..Len(s) :
        /\ CommandWordEnd(s, i) # 0
        /\ \E p \in (CommandWordEnd(s, i) + 1)..Len(s) :
               Ch(s, p) \in {"Z", "z"} /\ NumberAt(s, p + 1).ok

\* re.search(rapid_move_pattern, s) is not None, the pattern being [Gg]0.
IsRapid(s) ==
    \E i \in 1..(Len(s) - 1) : Ch(s, i) \in {"G", "g"} /\ Ch(s, i + 1) = "0"

----------------------------------------------------------------------------
(* detect_retractions *)

\* if is_z_movement and current_pos['Z'] > prev_z + 0.5
RiseThreshold == 500

\* The locals of detect_retractions before the loop, and the emptied result list.
DetectorStart ==
    [pos |-> Origin, prev_z |-> 0, in_retraction |-> FALSE,
     start_line |-> 0, start_height |-> 0, events |-> <<>>]

\* The mutant of RisesEnough with the comparison >= in place of >.
RisesEnoughOrEqual(z, prev_z) == z >= prev_z + RiseThreshold

\* current_pos['Z'] > prev_z + 0.5
RisesEnough(z, prev_z) == z > prev_z + RiseThreshold

\* The mutant of StartsRetraction without the test 'if not in_retraction': a
\* further rise while lifted records its own start line and height.
StartsRetractionAgain(clean, z, prev_z, in_retraction) ==
    IsZMovement(clean) /\ RisesEnough(z, prev_z)

\* if is_z_movement and current_pos['Z'] > prev_z + 0.5: if not in_retraction:
StartsRetraction(clean, z, prev_z, in_retraction) ==
    IsZMovement(clean) /\ RisesEnough(z, prev_z) /\ ~in_retraction

\* One iteration of the loop of detect_retractions, on line n of ls.
DetectorStep(st, ls, n) ==
    LET line == Strip(ls[n]) IN
    IF IsSkipped(line) THEN st
    ELSE
      LET clean == CleanLine(line)
          pos == ScanPositions(clean, 1, st.pos)
          starts == StartsRetraction(clean, pos.Z, st.prev_z, st.in_retraction)
          lifted == st.in_retraction \/ starts
          start_line == IF starts THEN n ELSE st.start_line
          start_height == IF starts THEN pos.Z ELSE st.start_height
          emits == lifted /\ IsRapid(clean)
          event == [line_number |-> start_line,
                    z_height |-> start_height,
                    line_content |-> Strip(ls[start_line]),
                    end_line |-> n,
                    end_content |-> line]
      IN [events |-> IF emits THEN Append(st.events, event) ELSE st.events,
          in_retraction |-> IF emits /\ pos.Z < start_height THEN FALSE ELSE lifted,
          start_line |-> start_line,
          start_height |-> start_height,
          pos |-> pos,
          prev_z |-> pos.Z]

\* The loop of detect_retractions over lines n..upto.
RECURSIVE DetectorLoop(_, _, _, _)
DetectorLoop(ls, n, upto, st) ==
    IF n > upto THEN st
    ELSE DetectorLoop(ls, n + 1, upto, DetectorStep(st, ls, n))

\* The detector's locals after it has processed the first k lines.
DetectorAfter(ls, k) == DetectorLoop(ls, 1, k, DetectorStart)

\* The mutant of ResetRetractions that keeps the previous run's events.
KeepRetractions(old) == old

\* self.retractions = []
ResetRetractions(old) == <<>>

\* self.retractions when the loop ends, before grouping.
DetectedRetractions(ls, old) == ResetRetractions(old) \o DetectorAfter(ls, Len(ls)).events

----------------------------------------------------------------------------
(* _group_similar_retractions *)

\* abs(current['z_height'] - prev['z_height']) < 0.1
GroupTolerance == 100

Abs(x) == IF x < 0 THEN -x ELSE x

\* list.sort(key=...): a stable sort, here by insertion after the last element
\* whose key is not greater.
RECURSIVE InsertByHeight(_, _)
InsertByHeight(sorted, e) ==
    IF Len(sorted) = 0 THEN <<e>>
    ELSE IF sorted[Len(sorted)].z_height <= e.z_height THEN Append(sorted, e)
    ELSE Append(InsertByHeight(SubSeq(sorted, 1, Len(sorted) - 1), e), sorted[Len(sorted)])

RECURSIVE SortByHeightFrom(_, _, _)
SortByHeightFrom(events, i, sorted) ==
    IF i > Len(events) THEN sorted
    ELSE SortByHeightFrom(events, i + 1, InsertByHeight(sorted, events[i]))

\* The mutant of SortByHeight that leaves the events in detection order.
SortByHeightSkipped(events) == events

\* self.retractions.sort(key=lambda x: x['z_height'])
SortByHeight(events) == SortByHeightFrom(events, 1, <<>>)

RECURSIVE SumHeights(_)
SumHeights(group) ==
    IF Len(group) = 0 THEN 0
    ELSE SumHeights(SubSeq(group, 1, Len(group) - 1)) + group[Len(group)].z_height

\* num/den rounded to the nearest integer, a tie going to the even one: what
\* round(x, 3) does to a float x that lies exactly on a tie.
RoundHalfEven(num, den) ==
    LET q == num \div den
        r == num % den
    IN IF 2 * r < den THEN q
       ELSE IF 2 * r > den THEN q + 1
       ELSE IF q % 2 = 0 THEN q ELSE q + 1

\* The mutant of RoundedMean that rounds to a whole number: round(avg_height).
RoundedMeanWhole(group) ==
    RoundHalfEven(SumHeights(group), Len(group) * Scale) * Scale

\* round(sum(r['z_height'] for r in current_group) / len(current_group), 3)
RoundedMean(group) == RoundHalfEven(SumHeights(group), Len(group))

\* The mutant of CloseGroup that leaves a single-element group unmarked.
CloseGroupSkipsSingletons(group) ==
    IF Len(group) = 1 THEN group
    ELSE [i \in 1..Len(group) |->
            [line_number |-> group[i].line_number,
             z_height |-> RoundedMean(group),
             line_content |-> group[i].line_content,
             end_line |-> group[i].end_line,
             end_content |-> group[i].end_content,
             grouped |-> TRUE,
             group_size |-> Len(group)]]

\* for r in current_group: r['z_height'] = round(avg_height, 3);
\* r['grouped'] = True; r['group_size'] = len(current_group)
CloseGroup(group) ==
    [i \in 1..Len(group) |->
        [line_number |-> group[i].line_number,
         z_height |-> RoundedMean(group),
         line_content |-> group[i].line_content,
         end_line |-> group[i].end_line,
         end_content |-> group[i].end_content,
         grouped |-> TRUE,
         group_size |-> Len(group)]]

\* The mutant of JoinsGroup that compares with the group's first member.
JoinsGroupByFirst(current_group, current) ==
    Abs(current.z_height - current_group[1].z_height) < GroupTolerance

\* prev = current_group[-1]; abs(current['z_height'] - prev['z_height']) < 0.1
JoinsGroup(current_group, current) ==
    Abs(current.z_height - current_group[Len(current_group)].z_height) < GroupTolerance

\* The loop over range(1, len(self.retractions)) and the closing of the last group.
RECURSIVE GroupWalk(_, _, _, _)
GroupWalk(sorted, i, current_group, grouped_retractions) ==
    IF i > Len(sorted) THEN grouped_retractions \o CloseGroup(current_group)
    ELSE IF JoinsGroup(current_group, sorted[i])
    THEN GroupWalk(sorted, i + 1, Append(current_group, sorted[i]), grouped_retractions)
    ELSE GroupWalk(sorted, i + 1, <<sorted[i]>>, grouped_retractions \o CloseGroup(current_group))

\* _group_similar_retractions: the new value of self.retractions.
GroupSimilarRetractions(events) ==
    IF events = <<>> THEN events
    ELSE LET sorted == SortByHeight(events)
         IN GroupWalk(sorted, 2, <<sorted[1]>>, <<>>)

\* detect_retractions: the new value of self.retractions.
DetectRetractions(ls, old) == GroupSimilarRetractions(DetectedRetractions(ls, old))

----------------------------------------------------------------------------
(* summarize: the report, one record per appended text line.  A height is    *)
(* printed with three decimals and the percentage with one, so the report   *)
(* carries thousandths and tenths of a percent.                             *)

\* height_groups: the buckets in insertion order, one per distinct z_height.
RECURSIVE HeightGroups(_, _, _)
HeightGroups(events, i, groups) ==
    IF i > Len(events) THEN groups
    ELSE LET height == events[i].z_height
             at == {g \in 1..Len(groups) : groups[g].z_height = height}
         IN IF at = {}
            THEN HeightGroups(events, i + 1,
                              Append(groups, [z_height |-> height, members |-> <<events[i]>>]))
            ELSE HeightGroups(events, i + 1,
                              [groups EXCEPT ![Min(at)].members = Append(@, events[i])])

\* The mutant of LargestGroup that takes the first bucket whatever its size.
LargestGroupFirstBucket(groups) == groups[1]

\* max(height_groups.items(), key=lambda x: len(x[1])): the first bucket, in
\* insertion order, that no other bucket exceeds in size.
LargestGroup(groups) ==
    LET big == {g \in 1..Len(groups) :
                   \A h \in 1..Len(groups) : Len(groups[h].members) <= Len(groups[g].members)}
    IN groups[Min(big)]

\* f"{len(largest)/len(self.retractions)*100:.1f}", in tenths of a percent.
PercentTenths(count, total) == RoundHalfEven(count * 100 * 10, total)

\* sorted(height_groups.items()): the buckets by ascending height.
SortedItems(groups) == SortByHeightFrom(groups, 1, <<>>)

\* The text lines of one bucket.
HeightLines(group) ==
    << [kind |-> "height", z_height |-> group.z_height,
        first_line |-> group.members[1].line_number] >>
    \o (IF Len(group.members) > 1
        THEN << [kind |-> "found_in", count |-> Len(group.members)] >>
        ELSE <<>>)

RECURSIVE AllHeightLines(_, _)
AllHeightLines(sorted_groups, i) ==
    IF i > Len(sorted_groups) THEN <<>>
    ELSE HeightLines(sorted_groups[i]) \o AllHeightLines(sorted_groups, i + 1)

PrimaryLines(groups, total) ==
    LET largest_group == LargestGroup(groups) IN
    << [kind |-> "primary", z_height |-> largest_group.z_height],
       [kind |-> "used_in", count |-> Len(largest_group.members), total |-> total],
       [kind |-> "percent", tenths |-> PercentTenths(Len(largest_group.members), total)] >>

\* The mutant of RetractionLines that writes nothing when there is no retraction.
RetractionLinesSilent(events) ==
    IF events # <<>>
    THEN LET height_groups == HeightGroups(events, 1, <<>>)
         IN AllHeightLines(SortedItems(height_groups), 1)
            \o PrimaryLines(height_groups, Len(events))
    ELSE <<>>

ToolChangeLines(tcs) ==
    IF tcs # <<>>
    THEN [i \in 1..Len(tcs) |->
            [kind |-> "tool_change", line_number |-> tcs[i].line_number,
             tool_number |-> tcs[i].tool_number, line_content |-> tcs[i].line_content]]
    ELSE << [kind |-> "no_tool_changes"] >>

RetractionLines(events) ==
    IF events # <<>>
    THEN LET height_groups == HeightGroups(events, 1, <<>>)
         IN AllHeightLines(SortedItems(height_groups), 1)
            \o (IF height_groups # <<>> THEN PrimaryLines(height_groups, Len(events)) ELSE <<>>)
    ELSE << [kind |-> "no_retractions"] >>

\* summarize(): the list that is joined into the returned text.
Summarize(tcs, events) ==
    << [kind |-> "title"], [kind |-> "tool_changes_header"] >>
    \o ToolChangeLines(tcs)
    \o << [kind |-> "retraction_heights_header"] >>
    \o RetractionLines(events)

----------------------------------------------------------------------------
(* GCodeParserApp.extract_tool_paths and extract_rapid_segments *)

NoTool == "<no tool>"

Point(pos) == <<pos.X, pos.Y, pos.Z>>

\* re.search(rf'{axis}([-+]?\d*\.?\d+)', line, re.IGNORECASE): the leftmost
\* place where the axis letter, in either case, is followed by a number.
AxisHits(s, axis) ==
    {i \in 1..Len(s) : Upper(Ch(s, i)) = axis /\ NumberAt(s, i + 1).ok}

\* for axis in 'XYZ': m = re.search(...); if m: current_pos[axis] = float(m.group(1))
SearchAxes(s, pos) ==
    [axis \in {"X", "Y", "Z"} |->
        IF AxisHits(s, axis) = {} THEN pos[axis]
        ELSE NumberAt(s, Min(AxisHits(s, axis)) + 1).value]

\* re.match(r'G0\b|G00\b', line, re.IGNORECASE): at the start of the line, G0
\* or G00 followed by a word boundary.
WordBoundaryAfter(s, i) == i = Len(s) \/ Ch(s, i + 1) \notin WordChars

\* The mutant of MatchesRapidPrefix without the word boundaries: re.match(r'G0', ...).
MatchesRapidPrefixNoBoundary(s) ==
    Len(s) >= 2 /\ Ch(s, 1) \in {"G", "g"} /\ Ch(s, 2) = "0"

MatchesRapidPrefix(s) ==
    /\ Len(s) >= 2
    /\ Ch(s, 1) \in {"G", "g"}
    /\ Ch(s, 2) = "0"
    /\ \/ WordBoundaryAfter(s, 2)
       \/ Len(s) >= 3 /\ Ch(s, 3) = "0" /\ WordBoundaryAfter(s, 3)

\* The mutant of Extend that replaces what the key held: tool_paths[tool] = path.
ExtendOverwrites(dict, key, items) ==
    [k \in DOMAIN dict \cup {key} |-> IF k = key THEN items ELSE dict[k]]

\* tool_paths.setdefault(tool, []).extend(path), and the same with append for
\* one rapid segment.
Extend(dict, key, items) ==
    [k \in DOMAIN dict \cup {key} |->
        IF k = key
        THEN (IF key \in DOMAIN dict THEN dict[key] ELSE <<>>) \o items
        ELSE dict[k]]

EmptyDict == [k \in {} |-> <<>>]

\* The mutant of SavePath without the test for current_tool: the points walked
\* before the first tool change are saved too, under the key of no tool.
SavePathAnyTool(st) ==
    IF st.current_path # <<>>
    THEN Extend(st.tool_paths, st.current_tool, st.current_path)
    ELSE st.tool_paths

\* if current_tool is not None and current_path: tool_paths.setdefault(...).extend(...)
SavePath(st) ==
    IF st.current_tool # NoTool /\ st.current_path # <<>>
    THEN Extend(st.tool_paths, st.current_tool, st.current_path)
    ELSE st.tool_paths

\* tc_idx < len(tool_changes) and (i+1) == tool_changes[tc_idx]['line_number']
AtToolChange(tcs, tc_idx, n) == tc_idx <= Len(tcs) /\ n = tcs[tc_idx].line_number

PathStart ==
    [tool_paths |-> EmptyDict, current_tool |-> NoTool, current_path |-> <<>>,
     pos |-> Origin, tc_idx |-> 1]

\* The mutant of PathStep that records no point for a tool change line.
PathStepSkipsToolLine(st, ls, tcs, n) ==
    LET line == Strip(ls[n]) IN
    IF IsSkipped(line) THEN st
    ELSE LET change == AtToolChange(tcs, st.tc_idx, n)
             pos == SearchAxes(line, st.pos)
         IN [tool_paths |-> IF change THEN SavePath(st) ELSE st.tool_paths,
             current_tool |-> IF change THEN tcs[st.tc_idx].tool_number ELSE st.current_tool,
             current_path |-> IF change THEN <<>> ELSE Append(st.current_path, Point(pos)),
             pos |-> pos,
             tc_idx |-> IF change THEN st.tc_idx + 1 ELSE st.tc_idx]

\* One iteration of the loop of extract_tool_paths, on line n.
PathStep(st, ls, tcs, n) ==
    LET line == Strip(ls[n]) IN
    IF IsSkipped(line) THEN st
    ELSE LET change == AtToolChange(tcs, st.tc_idx, n)
             pos == SearchAxes(line, st.pos)
         IN [tool_paths |-> IF change THEN SavePath(st) ELSE st.tool_paths,
             current_tool |-> IF change THEN tcs[st.tc_idx].tool_number ELSE st.current_tool,
             current_path |-> Append(IF change THEN <<>> ELSE st.current_path, Point(pos)),
             pos |-> pos,
             tc_idx |-> IF change THEN st.tc_idx + 1 ELSE st.tc_idx]

RECURSIVE PathLoop(_, _, _, _)
PathLoop(ls, tcs, n, st) ==
    IF n > Len(ls) THEN st ELSE PathLoop(ls, tcs, n + 1, PathStep(st, ls, tcs, n))

\* extract_tool_paths(): the returned dict, tool number -> list of points.
ExtractToolPaths(ls, tcs) == SavePath(PathLoop(ls, tcs, 1, PathStart))

RapidStart ==
    [rapid_segments |-> EmptyDict, current_tool |-> NoTool, tc_idx |-> 1,
     pos |-> Origin, prev_pos |-> <<>>]

\* One iteration of the loop of extract_rapid_segments, on line n.  prev_pos is
\* the empty sequence for None and a one-element sequence otherwise.
RapidStep(st, ls, tcs, n) ==
    LET line == Strip(ls[n]) IN
    IF IsSkipped(line) THEN st
    ELSE LET change == AtToolChange(tcs, st.tc_idx, n)
             current_tool == IF change THEN tcs[st.tc_idx].tool_number ELSE st.current_tool
             pos == SearchAxes(line, st.pos)
             records == /\ MatchesRapidPrefix(line)
                        /\ st.prev_pos # <<>>
                        /\ current_tool # NoTool
         IN [rapid_segments |->
                IF records
                THEN Extend(st.rapid_segments, current_tool, << <<Point(st.prev_pos[1]), Point(pos)>> >>)
                ELSE st.rapid_segments,
             current_tool |-> current_tool,
             tc_idx |-> IF change THEN st.tc_idx + 1 ELSE st.tc_idx,
             pos |-> pos,
             prev_pos |-> <<pos>>]

RECURSIVE RapidLoop(_, _, _, _)
RapidLoop(ls, tcs, n, st) ==
    IF n > Len(ls) THEN st ELSE RapidLoop(ls, tcs, n + 1, RapidStep(st, ls, tcs, n))

\* extract_rapid_segments(): the returned dict, tool number -> list of segments.
ExtractRapidSegments(ls, tcs) == RapidLoop(ls, tcs, 1, RapidStart).rapid_segments

----------------------------------------------------------------------------
(* Inputs: the programs a specification loads into GCodeParser.lines *)

MaxLines == 3
MaxMoveLines == 4
MaxPathLines == 4
MaxGroupEvents == 4
MaxSummaryEvents == 7
MaxRapidLines == 4
MaxLiftLines == 4
MaxAxisLines == 3

\* Every sequence over lib of length 0..n; the empty one is also what
\* _load_from_file leaves behind when the file cannot be read.
Programs(lib, n) == UNION {[1..k -> lib] : k \in 0..n}

\* Tool selections and comments.
ToolLines ==
    {"T1", "M6 T2", "M61 Q5", "M61 Q5 T3", "G0 X1",
     "G1 Z1 ; retract (ignored T9)", "G1 (T7) Z2 ; T8", "(T4) G1 Z3"}

\* Z moves around the rise threshold and rapid moves.
MoveLines ==
    {"G1 Z0.4", "G1 Z0.6", "G1 Z0.9", "G0 X1", "G0 Z0"}

\* Tool selections, moves and a comment line for the path extractors.
PathLines ==
    {"T1", "G1 X1 Y1 Z1", "T2", "G1 X2 Y2 Z2", "G0 X3", "; note"}

\* Tool selections, the two spellings of a rapid move, a feed move spelled
\* G01, and a comment line, for the rapid segment extractor.
RapidLines ==
    {"T1", "T2", "G0 X3", "G00 Y4", "G01 X2", "; note"}

\* Two rises, a drop by a feed move, a drop by a rapid move, a rapid move that
\* keeps the height and a feed move spelled G01, for the detector's two states.
LiftLines ==
    {"G1 Z2", "G1 Z5", "G1 Z0", "G0 Z0", "G0 X1", "G01 X2"}

\* A tool selection, an axis written twice, an axis word inside a parenthesis
\* comment, one after a semicolon, and a plain move, for the position tracking
\* of the detector and of the extractors.
AxisLines ==
    {"T1", "G1 X1 X2", "G1 (X5) Y2", "G0 Z3 ; X4", "G1 Y1 Z1"}

\* One retraction per height: a feed move up to z, then a rapid move back to 0.
RECURSIVE RiseAndDrop(_)
RiseAndDrop(zs) ==
    IF zs = <<>> THEN <<>>
    ELSE <<"G1 Z" \o Head(zs), "G0 Z0">> \o RiseAndDrop(Tail(zs))

GroupHeights == {"5.00", "5.05", "5.12", "8.00"}
SummaryHeights == {"1.0", "2.0"}

NoRepeat(zs) == \A i, j \in 1..Len(zs) : zs[i] = zs[j] => i = j

\* Heights near the grouping tolerance in any order, each at most once; and
\* two well separated heights, repeated.  The mean of every group these
\* programs produce is off a rounding tie, where the float's last bits, which
\* thousandths do not carry, would decide round().
HeightPrograms ==
    {RiseAndDrop(zs) : zs \in {z \in Programs(GroupHeights, MaxGroupEvents) : NoRepeat(z)}
                              \cup Programs(SummaryHeights, MaxSummaryEvents)}

----------------------------------------------------------------------------
(* The state machine: a GCodeParser with its lines loaded, and the calls    *)
(* a front end makes on it.                                                *)

None == <<>>

InitOn(programs) ==
    /\ lines \in programs
    /\ tool_changes = <<>>
    /\ retractions = <<>>
    /\ parses = "never"
    /\ prev_results = [tool_changes |-> <<>>, retractions |-> <<>>]
    /\ result = [op |-> "__init__", value |-> None]

\* parse(): detect_tool_changes(), then detect_retractions() with its grouping.
parse ==
    /\ tool_changes' = DetectToolChanges(lines, tool_changes)
    /\ retractions' = DetectRetractions(lines, retractions)
    /\ parses' = IF parses = "never" THEN "once" ELSE "repeatedly"
    /\ prev_results' = [tool_changes |-> tool_changes, retractions |-> retractions]
    /\ result' = [op |-> "parse", value |-> None]
    /\ UNCHANGED lines

summarize ==
    /\ result' = [op |-> "summarize", value |-> Summarize(tool_changes, retractions)]
    /\ UNCHANGED <<lines, tool_changes, retractions, parses, prev_results>>

extract_tool_paths ==
    /\ result' = [op |-> "extract_tool_paths",
                  value |-> ExtractToolPaths(lines, tool_changes)]
    /\ UNCHANGED <<lines, tool_changes, retractions, parses, prev_results>>

extract_rapid_segments ==
    /\ result' = [op |-> "extract_rapid_segments",
                  value |-> ExtractRapidSegments(lines, tool_changes)]
    /\ UNCHANGED <<lines, tool_changes, retractions, parses, prev_results>>

Next ==
    \/ parse
    \/ summarize
    \/ extract_tool_paths
    \/ extract_rapid_segments

Init == InitOn(Programs(ToolLines, MaxLines))
InitMoves == InitOn(Programs(MoveLines, MaxMoveLines))
InitPaths == InitOn(Programs(PathLines, MaxPathLines))
InitHeights == InitOn(HeightPrograms)
InitRapids == InitOn(Programs(RapidLines, MaxRapidLines))
InitLifts == InitOn(Programs(LiftLines, MaxLiftLines))
InitAxes == InitOn(Programs(AxisLines, MaxAxisLines))

Spec == Init /\ [][Next]_vars
SpecMoves == InitMoves /\ [][Next]_vars
SpecPaths == InitPaths /\ [][Next]_vars
SpecHeights == InitHeights /\ [][Next]_vars
SpecRapids == InitRapids /\ [][Next]_vars
SpecLifts == InitLifts /\ [][Next]_vars
SpecAxes == InitAxes /\ [][Next]_vars

----------------------------------------------------------------------------
(* Idempotence of parse() *)

\* C1: a parse() that follows another parse() on the same lines leaves
\* get_tool_changes() and get_retractions() exactly as they were before it:
\* the same events, in the same order.
C1_ParseIdempotent ==
    parses = "repeatedly" =>
        /\ tool_changes = prev_results.tool_changes
        /\ retractions = prev_results.retractions

\* A second parse() of a program that has both tool changes and retractions.
C1_Witness ==
    /\ parses = "repeatedly"
    /\ tool_changes # <<>>
    /\ retractions # <<>>

----------------------------------------------------------------------------
(* Tool change detection *)

\* The indices of the events recorded for line n.
EventsAt(n) == {i \in 1..Len(tool_changes) : tool_changes[i].line_number = n}

\* The patterns of the list that match s somewhere.
MatchingPatterns(s) == {p \in 1..NumPatterns : PatternSearch(p, s) # NoMatch}

\* C2: after parse(), a line that is skipped or matches no pattern has no event;
\* any other line has exactly one, with the digits captured by the lowest
\* numbered pattern that matches (bare T, M6 T, M06 T, M61 Q); the events are in
\* line order; and the line "M61 Q5 T3" has tool number "3".
C2_FirstPatternWins ==
    parses # "never" =>
        /\ \A n \in 1..Len(lines) :
              LET line == Strip(lines[n])
                  clean == CleanLine(line)
              IN IF IsSkipped(line) \/ MatchingPatterns(clean) = {}
                 THEN EventsAt(n) = {}
                 ELSE /\ Cardinality(EventsAt(n)) = 1
                      /\ \A i \in EventsAt(n) :
                            /\ tool_changes[i].tool_number =
                                   PatternSearch(Min(MatchingPatterns(clean)), clean)
                            /\ line = "M61 Q5 T3" => tool_changes[i].tool_number = "3"
                            /\ line = "M61 Q5" => tool_changes[i].tool_number = "5"
        /\ \A i, j \in 1..Len(tool_changes) :
              i < j => tool_changes[i].line_number < tool_changes[j].line_number

\* A parsed program with the line "M61 Q5 T3", reported once as tool "3", and
\* the line "M61 Q5", reported as tool "5".
C2_Witness ==
    /\ parses # "never"
    /\ \E i, j \in 1..Len(tool_changes) :
          /\ tool_changes[i].line_content = "M61 Q5 T3"
          /\ tool_changes[i].tool_number = "3"
          /\ tool_changes[j].line_content = "M61 Q5"
          /\ tool_changes[j].tool_number = "5"

----------------------------------------------------------------------------
(* The rise threshold of the retraction detector *)

\* Line k is processed by the detector (not empty, not a comment line).
Processed(k) == ~IsSkipped(Strip(lines[k]))

\* The detector's locals before the first line and after each line: element
\* k + 1 is what DetectorAfter(ls, k) is.
RECURSIVE DetectorTraceFrom(_, _, _)
DetectorTraceFrom(ls, n, st) ==
    IF n > Len(ls) THEN <<st>>
    ELSE <<st>> \o DetectorTraceFrom(ls, n + 1, DetectorStep(st, ls, n))

DetectorTrace(ls) == DetectorTraceFrom(ls, 1, DetectorStart)

\* The detector is NORMAL before a line and LIFTED while it handles the line:
\* it is still LIFTED after the line, or the line emitted an event of its own.
Lifts(before, after) ==
    /\ ~before.in_retraction
    /\ after.in_retraction \/ Len(after.events) > Len(before.events)

\* C3: the detector goes from NORMAL to LIFTED on a line only if the line is a
\* Z-bearing command whose Z is more than 0.5 above the Z held after the line
\* before; previous-Z equals the current Z after every processed line; every
\* retraction parse() reports starts on such a line; and from Z 0, a move to
\* Z0.4 and a rapid line give no retraction, a move to Z0.6 and a rapid line
\* give exactly one.
C3_RiseThreshold ==
    LET trace == DetectorTrace(lines) IN
    /\ \A k \in 1..Len(lines) :
          /\ Lifts(trace[k], trace[k + 1]) =>
                /\ IsZMovement(CleanLine(Strip(lines[k])))
                /\ trace[k + 1].pos.Z > trace[k].pos.Z + RiseThreshold
          /\ Processed(k) => trace[k + 1].prev_z = trace[k + 1].pos.Z
    /\ parses # "never" =>
          /\ \A i \in 1..Len(retractions) :
                LET s == retractions[i].line_number IN
                /\ IsZMovement(CleanLine(Strip(lines[s])))
                /\ trace[s + 1].pos.Z > trace[s].pos.Z + RiseThreshold
          /\ lines = <<"G1 Z0.4", "G0 X1">> => retractions = <<>>
          /\ lines = <<"G1 Z0.6", "G0 X1">> => Len(retractions) = 1

\* The two programs of the claim, parsed (the second with its one retraction at
\* height 0.6), and a program that rises by exactly 0.5, which starts nothing.
C3_WitnessBelow == parses # "never" /\ lines = <<"G1 Z0.4", "G0 X1">>

C3_WitnessExact ==
    /\ parses # "never"
    /\ lines = <<"G1 Z0.4", "G1 Z0.9", "G0 X1">>
    /\ retractions = <<>>

C3_Witness ==
    /\ parses # "never"
    /\ lines = <<"G1 Z0.6", "G0 X1">>
    /\ Len(retractions) = 1
    /\ retractions[1].z_height = 600
    /\ retractions[1].line_number = 1
    /\ retractions[1].end_line = 2

----------------------------------------------------------------------------
(* Grouping of retractions by height *)

\* The events in detection order, with their detected heights.
Detected == DetectorAfter(lines, Len(lines)).events

\* The detected heights of the returned events, in returned order: the i-th is
\* that of the detected event which ends on the same line (each rapid line
\* emits at most one event).
DetectedHeights ==
    LET detected == Detected IN
    [i \in 1..Len(retractions) |->
        (CHOOSE d \in {detected[k] : k \in 1..Len(detected)} :
            d.end_line = retractions[i].end_line).z_height]

\* In the height list h, events i..j are chained: each next height is within
\* the tolerance of the one before it.
Chained(h, i, j) == \A k \in i..(j - 1) : Abs(h[k + 1] - h[k]) < GroupTolerance

\* The cluster of the i-th event of h under the chained rule.
Cluster(h, i) ==
    {j \in 1..Len(h) : IF j <= i THEN Chained(h, j, i) ELSE Chained(h, i, j)}

RECURSIVE SumOver(_, _)
SumOver(h, S) ==
    IF S = {} THEN 0
    ELSE LET j == CHOOSE x \in S : TRUE
         IN h[j] + SumOver(h, S \ {j})

ReturnedHeights == [i \in 1..Len(retractions) |-> retractions[i].z_height]

\* C4: after parse(), the z_height of every returned event is the mean of the
\* detected heights of its chained cluster (neighbours in ascending detected
\* height less than 0.1 apart, whatever the cluster's mean or first member),
\* to the nearest thousandth; detected heights 5.00, 5.05, 5.12 and 8.00 come
\* back as 5.057, 5.057, 5.057 and 8.0.
C4_ChainedGrouping ==
    parses # "never" =>
        LET h == DetectedHeights IN
        /\ \A i \in 1..Len(retractions) :
              LET cluster == Cluster(h, i)
                  n == Cardinality(cluster)
              IN 2 * Abs(retractions[i].z_height * n - SumOver(h, cluster)) <= n
        /\ {h[i] : i \in 1..Len(h)} = {5000, 5050, 5120, 8000}
              => ReturnedHeights = <<5057, 5057, 5057, 8000>>

\* The four heights of the claim, detected in the order 8.00, 5.12, 5.00, 5.05.
C4_Witness ==
    /\ parses # "never"
    /\ lines = RiseAndDrop(<<"8.00", "5.12", "5.00", "5.05">>)
    /\ ReturnedHeights = <<5057, 5057, 5057, 8000>>

\* C5: after parse(), every returned event is marked grouped and its group_size
\* is the number of events of its cluster, also in a cluster of one and in the
\* last cluster of the walk.
C5_EveryEventMarked ==
    parses # "never" =>
        LET h == DetectedHeights IN
        \A i \in 1..Len(retractions) :
            /\ {"grouped", "group_size"} \subseteq DOMAIN retractions[i]
            /\ retractions[i].grouped = TRUE
            /\ retractions[i].group_size = Cardinality(Cluster(h, i))

\* A cluster of three followed by a last cluster of one, all marked.
C5_Witness ==
    /\ parses # "never"
    /\ Len(retractions) = 4
    /\ [i \in 1..4 |-> retractions[i].group_size] = <<3, 3, 3, 1>>
    /\ \A i \in 1..4 : retractions[i].grouped

\* C6: after parse(), the returned events are exactly the detected ones, in
\* ascending detected height, events of equal detected height in detection
\* order; so the final z_height values never decrease along the list.
C6_HeightOrder ==
    parses # "never" =>
        LET detected == Detected
            h == DetectedHeights
        IN /\ {retractions[i].end_line : i \in 1..Len(retractions)}
                 = {detected[k].end_line : k \in 1..Len(detected)}
           /\ Len(retractions) = Len(detected)
           /\ \A i, j \in 1..Len(retractions) :
                 i < j =>
                    /\ h[i] <= h[j]
                    /\ h[i] = h[j] => retractions[i].end_line < retractions[j].end_line
                    /\ retractions[i].z_height <= retractions[j].z_height

\* A returned list that is not in line order (a higher retraction came first in
\* the program) and holds two events of equal height in detection order.
C6_Witness ==
    /\ parses # "never"
    /\ \E i, j \in 1..Len(retractions) :
          i < j /\ retractions[i].end_line > retractions[j].end_line
    /\ \E i, j \in 1..Len(retractions) :
          i < j /\ retractions[i].z_height = retractions[j].z_height

----------------------------------------------------------------------------
(* The summary *)

\* The report lines of a kind.
ReportLines(kind) == {i \in 1..Len(result.value) : result.value[i].kind = kind}

\* How many returned events have final height z.
CountAt(z) == Cardinality({i \in 1..Len(retractions) : retractions[i].z_height = z})

\* C7: a summarize() of a non-empty retraction set names exactly one primary
\* height; no height has more events than it; the report gives that height's
\* event count, the number of all retractions, and count/total as a percentage
\* to the nearest tenth.  Five retractions at 1.0 and two at 2.0 report 1.0,
\* 5 out of 7, 71.4%.
C7_PrimaryHeight ==
    (result.op = "summarize" /\ retractions # <<>>) =>
        /\ Cardinality(ReportLines("primary")) = 1
        /\ Cardinality(ReportLines("used_in")) = 1
        /\ Cardinality(ReportLines("percent")) = 1
        /\ \A p \in ReportLines("primary"), u \in ReportLines("used_in"),
              q \in ReportLines("percent") :
              LET primary == result.value[p].z_height
                  count == result.value[u].count
                  total == result.value[u].total
                  tenths == result.value[q].tenths
              IN /\ count = CountAt(primary)
                 /\ count > 0
                 /\ \A i \in 1..Len(retractions) : CountAt(retractions[i].z_height) <= count
                 /\ total = Len(retractions)
                 /\ 2 * Abs(tenths * total - count * 1000) <= total
                 /\ (CountAt(1000) = 5 /\ CountAt(2000) = 2 /\ total = 7)
                       => (primary = 1000 /\ count = 5 /\ tenths = 714)

\* The summary of five retractions at 1.0 and two at 2.0, the two at 2.0 first
\* in the program: 1.0 is primary with 5 out of 7, 71.4%.
C7_Witness ==
    /\ result.op = "summarize"
    /\ lines = RiseAndDrop(<<"2.0", "2.0", "1.0", "1.0", "1.0", "1.0", "1.0">>)
    /\ \E p \in ReportLines("primary"), u \in ReportLines("used_in"),
          q \in ReportLines("percent") :
          /\ result.value[p].z_height = 1000
          /\ result.value[u] = [kind |-> "used_in", count |-> 5, total |-> 7]
          /\ result.value[q].tenths = 714

\* C10: with no lines loaded, parse() leaves both result lists empty; and a
\* summarize() of an empty tool change list writes the 'no tool changes' line
\* and no tool change line, a summarize() of an empty retraction list writes
\* the 'no retractions' line and no height, primary, count or percentage line;
\* a percentage is only ever written with a total above zero.
C10_EmptyResults ==
    /\ (parses # "never" /\ lines = <<>>) => (tool_changes = <<>> /\ retractions = <<>>)
    /\ retractions = <<>> => GroupSimilarRetractions(retractions) = retractions
    /\ result.op = "summarize" =>
          /\ tool_changes = <<>> =>
                (Cardinality(ReportLines("no_tool_changes")) = 1
                    /\ ReportLines("tool_change") = {})
          /\ retractions = <<>> =>
                /\ Cardinality(ReportLines("no_retractions")) = 1
                /\ \A k \in {"height", "found_in", "primary", "used_in", "percent"} :
                      ReportLines(k) = {}
          /\ tool_changes # <<>> => ReportLines("no_tool_changes") = {}
          /\ retractions # <<>> => ReportLines("no_retractions") = {}
          /\ \A u \in ReportLines("used_in") : result.value[u].total > 0

\* The summary of a parsed empty line sequence: both 'none detected' lines.
C10_Witness ==
    /\ parses # "never"
    /\ lines = <<>>
    /\ result.op = "summarize"
    /\ result.value = << [kind |-> "title"], [kind |-> "tool_changes_header"],
                         [kind |-> "no_tool_changes"],
                         [kind |-> "retraction_heights_header"],
                         [kind |-> "no_retractions"] >>

\* The summary of a parsed program that has lines but no tool change and no
\* retraction.
C10_WitnessNoEvents ==
    /\ parses # "never"
    /\ lines = <<"G0 X1", "(T4) G1 Z3">>
    /\ result.op = "summarize"
    /\ ReportLines("no_tool_changes") # {}
    /\ ReportLines("no_retractions") # {}

----------------------------------------------------------------------------
(* Comments *)

\* The text of a line outside its comments, by one scan from the left: a "("
\* with a ")" somewhere after it opens a comment that ends at the first ")",
\* and a ";" met outside such a comment makes the rest of the line a comment.
RECURSIVE OutsideComments(_, _)
OutsideComments(s, i) ==
    IF i > Len(s) \/ Ch(s, i) = ";" THEN ""
    ELSE IF Ch(s, i) = "(" /\ Occurrences(s, i + 1, ")") # {}
    THEN OutsideComments(s, Min(Occurrences(s, i + 1, ")")) + 1)
    ELSE Ch(s, i) \o OutsideComments(s, i + 1)

\* The tool numbers that the lines of ToolLines write only inside comments.
CommentOnlyTools == {"9", "7", "8", "4"}

\* C9: after parse(), every tool change event is the one that the text outside
\* the comments of its line gives, and none carries a tool number written only
\* inside a comment; the position the detector holds after a command line is
\* the one before it, overwritten by the axis words outside the comments:
\* "G1 Z1 ; retract (ignored T9)" records no tool change and leaves Z at 1.
C9_CommentsIgnored ==
    /\ parses # "never" =>
          \A i \in 1..Len(tool_changes) :
              LET code == OutsideComments(tool_changes[i].line_content, 1) IN
              /\ MatchingPatterns(code) # {}
              /\ tool_changes[i].tool_number = PatternSearch(Min(MatchingPatterns(code)), code)
              /\ tool_changes[i].tool_number \notin CommentOnlyTools
              /\ tool_changes[i].line_content # "G1 Z1 ; retract (ignored T9)"
    /\ LET trace == DetectorTrace(lines) IN
       \A k \in 1..Len(lines) :
          Processed(k) =>
              LET line == Strip(lines[k])
                  after == trace[k + 1].pos
              IN /\ after = ScanPositions(OutsideComments(line, 1), 1, trace[k].pos)
                 /\ line = "G1 Z1 ; retract (ignored T9)" => after.Z = 1000
                 /\ line = "G1 (T7) Z2 ; T8" => after.Z = 2000

\* The claim's line followed by a rapid line, parsed: no tool change, and one
\* retraction whose height 1.0 is the Z the commented line set.
C9_Witness ==
    /\ parses # "never"
    /\ lines = <<"G1 Z1 ; retract (ignored T9)", "G0 X1">>
    /\ tool_changes = <<>>
    /\ Len(retractions) = 1
    /\ retractions[1].z_height = 1000
    /\ retractions[1].line_content = "G1 Z1 ; retract (ignored T9)"

----------------------------------------------------------------------------
(* Tool paths *)

FourLines == <<"T1", "G1 X1 Y1 Z1", "T2", "G1 X2 Y2 Z2">>

\* The tool active on line n: that of the last tool change at or before n.
ActiveTool(n) ==
    LET upto == {i \in 1..Len(tool_changes) : tool_changes[i].line_number <= n}
    IN IF upto = {} THEN NoTool
       ELSE tool_changes[CHOOSE i \in upto : \A j \in upto : j <= i].tool_number

\* C8 as stated: for the four lines T1, G1 X1 Y1 Z1, T2, G1 X2 Y2 Z2 the paths
\* are tool "1" -> [[1,1,1]] and tool "2" -> [[2,2,2]].
C8_AsClaimed ==
    (parses # "never" /\ lines = FourLines /\ result.op = "extract_tool_paths") =>
        result.value = ("1" :> << <<1000, 1000, 1000>> >>
                        @@ "2" :> << <<2000, 2000, 2000>> >>)

\* C8, amended: for the four lines the paths are tool "1" -> [[0,0,0],[1,1,1]]
\* and tool "2" -> [[1,1,1],[2,2,2]]; in general a tool's path has one point for
\* every processed line on which the tool is active, its own selection line
\* included, and only tools that are selected somewhere have a path.
C8_PathsOfFourLines ==
    (parses # "never" /\ result.op = "extract_tool_paths") =>
        /\ lines = FourLines =>
              result.value = ("1" :> << <<0, 0, 0>>, <<1000, 1000, 1000>> >>
                              @@ "2" :> << <<1000, 1000, 1000>>, <<2000, 2000, 2000>> >>)
        /\ DOMAIN result.value = {tool_changes[i].tool_number : i \in 1..Len(tool_changes)}
        /\ \A t \in DOMAIN result.value :
              Len(result.value[t])
                 = Cardinality({n \in 1..Len(lines) : Processed(n) /\ ActiveTool(n) = t})

\* The paths extracted from the four lines after parse().
C8_Witness ==
    /\ parses # "never"
    /\ lines = FourLines
    /\ result.op = "extract_tool_paths"
    /\ DOMAIN result.value = {"1", "2"}
    /\ Len(result.value["1"]) = 2
    /\ Len(result.value["2"]) = 2

----------------------------------------------------------------------------
(* Tool paths and rapid segments, line by line *)

\* The position the extractors hold before the first line and after each line:
\* element k + 1 is the position after line k.
RECURSIVE WalkedPositionsFrom(_, _, _)
WalkedPositionsFrom(ls, n, pos) ==
    IF n > Len(ls) THEN <<pos>>
    ELSE LET line == Strip(ls[n])
             next == IF IsSkipped(line) THEN pos ELSE SearchAxes(line, pos)
         IN <<pos>> \o WalkedPositionsFrom(ls, n + 1, next)

WalkedPositions(ls) == WalkedPositionsFrom(ls, 1, Origin)

\* The points of the processed lines from n on that have tool t active, in line
\* order, given the positions walked.
RECURSIVE PointsOf(_, _, _)
PointsOf(walked, t, n) ==
    IF n > Len(lines) THEN <<>>
    ELSE (IF Processed(n) /\ ActiveTool(n) = t THEN << Point(walked[n + 1]) >> ELSE <<>>)
         \o PointsOf(walked, t, n + 1)

\* C11: the path extract_tool_paths() returns for a tool is, in line order, the
\* position after every non-comment line on which that tool is the active one:
\* the tool change line itself and lines without an axis word included, and a
\* tool selected again later gets its later lines after its earlier ones; a
\* tool has a path exactly when it is active on some line.
C11_PathPerLine ==
    result.op = "extract_tool_paths" =>
        LET walked == WalkedPositions(lines) IN
        /\ DOMAIN result.value
              = {ActiveTool(n) : n \in {m \in 1..Len(lines) : Processed(m)}} \ {NoTool}
        /\ \A t \in DOMAIN result.value : result.value[t] = PointsOf(walked, t, 1)

\* Tool "1" is selected, moves, gives way to tool "2" and is selected again:
\* its path holds the two lines of its first range, then the line of its second.
C11_Witness ==
    /\ lines = <<"T1", "G1 X1 Y1 Z1", "T2", "T1">>
    /\ result.op = "extract_tool_paths"
    /\ result.value = ("1" :> << <<0, 0, 0>>, <<1000, 1000, 1000>>, <<1000, 1000, 1000>> >>
                       @@ "2" :> << <<1000, 1000, 1000>> >>)

\* A comment line inside a tool's range adds no point to its path.
C11_WitnessComment ==
    /\ lines = <<"T1", "; note", "G0 X3">>
    /\ result.op = "extract_tool_paths"
    /\ result.value = ("1" :> << <<0, 0, 0>>, <<3000, 0, 0>> >>)

\* The line of the first tool change event, 0 when there is none.
FirstToolLine == IF tool_changes = <<>> THEN 0 ELSE tool_changes[1].line_number

\* The number of points, or segments, a returned mapping holds under the keys.
RECURSIVE CountItems(_, _)
CountItems(dict, keys) ==
    IF keys = {} THEN 0
    ELSE LET k == CHOOSE x \in keys : TRUE
         IN Len(dict[k]) + CountItems(dict, keys \ {k})

\* C12: what the two extractors return holds nothing from a line before the
\* first tool change line: as many points as there are non-comment lines from
\* that line on, each the position after such a line; as many segments as there
\* are rapid lines from that line on with a non-comment line before them, each
\* the move of such a line; no entry under a key that is no tool; and with no
\* tool change in the program both return an empty mapping.
C12_NothingBeforeFirstTool ==
    LET walked == WalkedPositions(lines)
        under == {n \in 1..Len(lines) :
                     Processed(n) /\ tool_changes # <<>> /\ n >= FirstToolLine}
        rapid == {n \in under : /\ MatchesRapidPrefix(Strip(lines[n]))
                                /\ \E m \in 1..(n - 1) : Processed(m)}
        tools == {tool_changes[i].tool_number : i \in 1..Len(tool_changes)}
    IN /\ result.op = "extract_tool_paths" =>
             /\ tool_changes = <<>> => result.value = EmptyDict
             /\ DOMAIN result.value \subseteq tools
             /\ CountItems(result.value, DOMAIN result.value) = Cardinality(under)
             /\ \A t \in DOMAIN result.value : \A i \in 1..Len(result.value[t]) :
                    \E n \in under : result.value[t][i] = Point(walked[n + 1])
       /\ result.op = "extract_rapid_segments" =>
             /\ tool_changes = <<>> => result.value = EmptyDict
             /\ DOMAIN result.value \subseteq tools
             /\ CountItems(result.value, DOMAIN result.value) = Cardinality(rapid)
             /\ \A t \in DOMAIN result.value : \A i \in 1..Len(result.value[t]) :
                    \E n \in rapid :
                        result.value[t][i] = <<Point(walked[n]), Point(walked[n + 1])>>

\* A rapid move and a feed move before the first tool change, a rapid move
\* after it: only the last one is returned, as the one segment of tool "1".
C12_Witness ==
    /\ parses # "never"
    /\ lines = <<"G0 X3", "G1 X1 Y1 Z1", "T1", "G0 X3">>
    /\ result.op = "extract_rapid_segments"
    /\ result.value = ("1" :> << << <<1000, 1000, 1000>>, <<3000, 1000, 1000>> >> >>)

\* The same program's paths: two points, those of the tool change line and of
\* the line after it.
C12_WitnessPaths ==
    /\ parses # "never"
    /\ lines = <<"G0 X3", "G1 X1 Y1 Z1", "T1", "G0 X3">>
    /\ result.op = "extract_tool_paths"
    /\ result.value = ("1" :> << <<1000, 1000, 1000>>, <<3000, 1000, 1000>> >>)

\* A parsed program that moves but selects no tool: an empty mapping.
C12_WitnessNoTool ==
    /\ parses # "never"
    /\ lines = <<"G1 X1 Y1 Z1", "G0 X3">>
    /\ result.op = "extract_tool_paths"
    /\ result.value = EmptyDict

\* The command word of a line: the text outside its comments, up to the first
\* whitespace.
CommandWord(line) ==
    LET code == OutsideComments(line, 1)
        ends == {i \in 1..Len(code) : Ch(code, i) \in Whitespace}
    IN IF ends = {} THEN code ELSE SubSeq(code, 1, Min(ends) - 1)

\* The command of the line is rapid travel: its command word is G0 or G00.
IsRapidCommand(line) == CommandWord(line) \in {"G0", "G00", "g0", "g00"}

\* The lines for which a segment is due: non-comment lines with a rapid travel
\* command, a non-comment line before them and a tool active.
RapidLinesDue ==
    {n \in 1..Len(lines) :
        /\ Processed(n)
        /\ IsRapidCommand(Strip(lines[n]))
        /\ \E m \in 1..(n - 1) : Processed(m)
        /\ ActiveTool(n) # NoTool}

\* The segments due under tool t for the lines from n on, in line order: from
\* the position before the line to the position after it.
RECURSIVE SegmentsOf(_, _, _)
SegmentsOf(walked, t, n) ==
    IF n > Len(lines) THEN <<>>
    ELSE (IF n \in RapidLinesDue /\ ActiveTool(n) = t
          THEN << <<Point(walked[n]), Point(walked[n + 1])>> >> ELSE <<>>)
         \o SegmentsOf(walked, t, n + 1)

C13_WitnessTools ==
    /\ lines = <<"G0 X3", "T1", "; note", "G00 Y4">>
    /\ result.op = "extract_rapid_segments"
    /\ result.value = ("1" :> << << <<3000, 0, 0>>, <<3000, 4000, 0>> >> >>)

----------------------------------------------------------------------------
(* The two states of the retraction detector *)

\* The returned events that end on line k.
EndingAt(k) == {i \in 1..Len(retractions) : retractions[i].end_line = k}

\* C14: a line the detector meets while LIFTED leaves the recorded start line
\* and start height as they are, also when it rises by more than 0.5; if its
\* command is G0 or G00 it emits exactly one event, which carries that start
\* line and start height and ends on the line; a line that takes the detector
\* from NORMAL to LIFTED records itself and its Z.  After parse() every rapid
\* line met while LIFTED has exactly one returned event, with the start line
\* recorded at the transition; a line that the detector does not classify as
\* rapid, or meets while NORMAL, has none, so a plateau with N lines classified
\* as rapid has N events; and returned events with the same start line have
\* the same height and start text.
C14_PlateauEvents ==
    LET trace == DetectorTrace(lines) IN
    /\ \A k \in 1..Len(lines) :
          LET before == trace[k]
              after == trace[k + 1]
          IN /\ (Processed(k) /\ before.in_retraction) =>
                   /\ after.start_line = before.start_line
                   /\ after.start_height = before.start_height
                   /\ IsRapidCommand(Strip(lines[k])) =>
                         /\ Len(after.events) = Len(before.events) + 1
                         /\ LET e == after.events[Len(after.events)]
                            IN /\ e.line_number = before.start_line
                               /\ e.z_height = before.start_height
                               /\ e.end_line = k
             /\ Lifts(before, after) =>
                   /\ after.start_line = k
                   /\ after.start_height = after.pos.Z
    /\ parses # "never" =>
          /\ \A k \in 1..Len(lines) :
                (/\ Processed(k)
                 /\ trace[k].in_retraction \/ Lifts(trace[k], trace[k + 1])
                 /\ IsRapidCommand(Strip(lines[k]))) =>
                    /\ Cardinality(EndingAt(k)) = 1
                    /\ \A i \in EndingAt(k) :
                          retractions[i].line_number = trace[k + 1].start_line
          /\ \A k \in 1..Len(lines) :
                LET lifted == trace[k].in_retraction \/ Lifts(trace[k], trace[k + 1])
                    classified == Processed(k) /\ IsRapid(CleanLine(Strip(lines[k])))
                IN /\ Cardinality(EndingAt(k)) = IF lifted /\ classified THEN 1 ELSE 0
                   /\ \A i \in EndingAt(k) :
                         retractions[i].line_number = trace[k + 1].start_line
          /\ \A i \in 1..Len(retractions) : retractions[i].end_line \in 1..Len(lines)
          /\ \A i, j \in 1..Len(retractions) :
                retractions[i].line_number = retractions[j].line_number =>
                    /\ retractions[i].z_height = retractions[j].z_height
                    /\ retractions[i].line_content = retractions[j].line_content

\* A rise to 2, a rapid line, a further rise to 5 and another rapid line: two
\* events, both with start line 1 and height 2.
C14_Witness ==
    /\ parses # "never"
    /\ lines = <<"G1 Z2", "G0 X1", "G1 Z5", "G0 X1">>
    /\ Len(retractions) = 2
    /\ \A i \in 1..2 :
          /\ retractions[i].line_number = 1
          /\ retractions[i].z_height = 2000
          /\ retractions[i].group_size = 2
    /\ {retractions[i].end_line : i \in 1..2} = {2, 4}

\* A plateau with three rapid lines: three events with the same start data.
C14_WitnessPlateau ==
    /\ parses # "never"
    /\ lines = <<"G1 Z5", "G0 X1", "G0 X1", "G0 X1">>
    /\ Len(retractions) = 3
    /\ \A i \in 1..3 : retractions[i].line_number = 1 /\ retractions[i].z_height = 5000

\* Line d leaves Z below the height at which the retraction of line s started.
DropsBelowStart(trace, s, d) ==
    Processed(d) /\ trace[d + 1].pos.Z < trace[s + 1].pos.Z

\* Line j is a qualifying rise: a Z-bearing command that lifts Z by more than
\* 0.5 over the line before.
QualifyingRise(trace, j) ==
    /\ Processed(j)
    /\ IsZMovement(CleanLine(Strip(lines[j])))
    /\ trace[j + 1].pos.Z > trace[j].pos.Z + RiseThreshold

\* C15: once Z has dropped below the start height of a retraction the detector
\* is NORMAL again and the next qualifying rise starts a retraction of its own:
\* no event returned by parse() that ends at or after such a new rise carries
\* the start line of the plateau left before it.
C15_ResetOnDrop ==
    parses # "never" =>
        LET trace == DetectorTrace(lines) IN
        \A i \in 1..Len(retractions) :
            LET s == retractions[i].line_number
                k == retractions[i].end_line
            IN \A d \in (s + 1)..(k - 1) : \A j \in (d + 1)..k :
                  ~(DropsBelowStart(trace, s, d) /\ QualifyingRise(trace, j))

\* The drop that line 169 does see: one made by a rapid line.  The rise after
\* it starts a retraction with its own start line and height.
C15_WitnessRapidDrop ==
    /\ parses # "never"
    /\ lines = <<"G1 Z2", "G0 Z0", "G1 Z5", "G0 X1">>
    /\ {<<retractions[i].line_number, retractions[i].z_height, retractions[i].end_line>> :
            i \in 1..Len(retractions)} = {<<1, 2000, 2>>, <<3, 5000, 4>>}

\* The drop it does not see: one made by a feed move.  The event of line 4
\* still carries start line 1 and height 2 although Z rose anew to 5 on line 3.
C15_WitnessFeedDrop ==
    /\ parses # "never"
    /\ lines = <<"G1 Z2", "G1 Z0", "G1 Z5", "G0 X1">>
    /\ Len(retractions) = 1
    /\ retractions[1].line_number = 1
    /\ retractions[1].z_height = 2000
    /\ retractions[1].end_line = 4

\* C16: every event returned by parse() ends on a line whose command is G0 or
\* G00, which is also a line that extract_rapid_segments takes for a rapid
\* move; a feed or other move (G1, G01, G02, G03) ends no event.
C16_OnlyG0IsRapid ==
    parses # "never" =>
        \A i \in 1..Len(retractions) :
            /\ IsRapidCommand(retractions[i].end_content)
            /\ MatchesRapidPrefix(retractions[i].end_content)

\* A rise followed by a feed move spelled G01: the detector reports a
\* retraction that ends on the feed move.
C16_WitnessFeedMove ==
    /\ parses # "never"
    /\ lines = <<"G1 Z2", "G01 X2">>
    /\ Len(retractions) = 1
    /\ retractions[1].end_content = "G01 X2"
    /\ ~MatchesRapidPrefix(retractions[1].end_content)

----------------------------------------------------------------------------
(* Position tracking in the detector and in the extractors *)

\* The position the retraction detector holds before the first line and after
\* each line.
DetectorPositions ==
    LET trace == DetectorTrace(lines) IN [k \in 1..Len(trace) |-> trace[k].pos]

\* C17: the points and segments the two extractors return are made of the
\* positions the retraction detector computes for the same lines: only axis
\* words outside comments count, an axis the line does not name keeps its
\* value, and of two words for one axis the last one takes effect.
C17_SamePositions ==
    parses # "never" =>
        LET tracked == DetectorPositions IN
        /\ result.op = "extract_tool_paths" =>
              \A t \in DOMAIN result.value : result.value[t] = PointsOf(tracked, t, 1)
        /\ result.op = "extract_rapid_segments" =>
              \A t \in DOMAIN result.value : result.value[t] = SegmentsOf(tracked, t, 1)

\* An axis written twice: the path holds the first value, 1, where the
\* detector holds the last, 2.
C17_WitnessTwice ==
    /\ parses # "never"
    /\ lines = <<"T1", "G1 X1 X2">>
    /\ result.op = "extract_tool_paths"
    /\ result.value = ("1" :> << <<0, 0, 0>>, <<1000, 0, 0>> >>)
    /\ DetectorPositions[3] = [X |-> 2000, Y |-> 0, Z |-> 0]

\* An axis word inside a comment: the segment ends at X 4, which only the
\* comment names, where the detector holds X 0.
C17_WitnessComment ==
    /\ parses # "never"
    /\ lines = <<"T1", "G0 Z3 ; X4">>
    /\ result.op = "extract_rapid_segments"
    /\ result.value = ("1" :> << << <<0, 0, 0>>, <<4000, 0, 3000>> >> >>)
    /\ DetectorPositions[3] = [X |-> 0, Y |-> 0, Z |-> 3000]

\* Lines that name each axis once and outside comments: both passes agree.
C17_WitnessAgree ==
    /\ parses # "never"
    /\ lines = <<"T1", "G1 Y1 Z1">>
    /\ result.op = "extract_tool_paths"
    /\ result.value = ("1" :> << <<0, 0, 0>>, <<0, 1000, 1000>> >>)
    /\ DetectorPositions[3] = [X |-> 0, Y |-> 1000, Z |-> 1000]

----------------------------------------------------------------------------
(* Clusters of the grouper and height buckets of the summary *)

\* C18: after parse(), the group_size of every returned event is the number of
\* returned events with its final z_height; two returned events have the same
\* final z_height exactly when they are in the same cluster, so clusters never
\* share a rounded mean; the returned events are the detected ones, each once;
\* and summarize() prints one height per cluster, with the cluster's size for
\* every cluster of more than one event.
C18_GroupSizeIsBucketCount ==
    parses # "never" =>
        LET h == DetectedHeights
            detected == Detected
            clusters == {Cluster(h, i) : i \in 1..Len(h)}
        IN /\ \A i \in 1..Len(retractions) :
                 /\ "group_size" \in DOMAIN retractions[i]
                 /\ retractions[i].group_size = CountAt(retractions[i].z_height)
           /\ \A i, j \in 1..Len(retractions) :
                 (retractions[i].z_height = retractions[j].z_height)
                     <=> (Cluster(h, i) = Cluster(h, j))
           /\ Len(retractions) = Len(detected)
           /\ \A k \in 1..Len(detected) :
                 Cardinality(EndingAt(detected[k].end_line)) = 1
           /\ result.op = "summarize" =>
                 /\ Cardinality(ReportLines("height")) = Cardinality(clusters)
                 /\ \A c \in clusters :
                       \E r \in ReportLines("height") :
                           \A i \in c : result.value[r].z_height = retractions[i].z_height
                 /\ {result.value[r].count : r \in ReportLines("found_in")}
                       = {Cardinality(c) : c \in {x \in clusters : Cardinality(x) > 1}}

\* Two clusters that are 0.12 apart: 5.00 stays alone and 5.12 stays alone,
\* each with group_size 1 and a height bucket of its own.
C18_Witness ==
    /\ parses # "never"
    /\ lines = RiseAndDrop(<<"5.12", "5.00">>)
    /\ result.op = "summarize"
    /\ ReturnedHeights = <<5000, 5120>>
    /\ \A i \in 1..2 : retractions[i].group_size = 1
    /\ Cardinality(ReportLines("height")) = 2

\* A cluster of three and a cluster of one, summarized: two heights, and one
\* 'found in 3 movements' line.
C18_WitnessClusters ==
    /\ parses # "never"
    /\ lines = RiseAndDrop(<<"8.00", "5.12", "5.00", "5.05">>)
    /\ result.op = "summarize"
    /\ [i \in 1..4 |-> retractions[i].group_size] = <<3, 3, 3, 1>>
    /\ Cardinality(ReportLines("height")) = 2
    /\ {result.value[r].count : r \in ReportLines("found_in")} = {3}

====
